---- MODULE Spec2Model ----
(***************************************************************************)
(* codex: a CLI that concatenates the files of a project into one text     *)
(* artifact, skipping the folders and files a codex.yml excludes.          *)
(* Source: src/src/codex.go.                                               *)
(*                                                                         *)
(* Strings are sequences of one-character strings, so that substring       *)
(* matching, path joining, sorting of directory listings and the YAML      *)
(* encoding are computed character by character as the code does.          *)
(***************************************************************************)
EXTENDS Integers, Sequences, FiniteSets

VARIABLES
    dir,          \* the <directory> argument of the invocations
    fs,           \* the tree under dir: set of [path, isDir, data]
    unreadable,   \* paths whose listing (directory) or content (file) cannot be read
    fallback,     \* <exe dir>/config/default.yml: [writable, exists, data]
    outCreatable, \* whether os.Create(*outputPath) succeeds
    out,          \* the output file on disk: sequence of written chunks
    invocations,  \* number of processes started so far
    lastCmd,      \* subcommand of the previous invocation ("none" before the first)
    lastExit,     \* exit status of the previous invocation
    prevYml,      \* <dir>/codex.yml as the previous invocation left it
    pc,           \* position of the running process in main
    args,         \* os.Args[1:] of the running process
    projectType,  \* local projectType of main
    configPath,   \* local configPath of main: "dir" or "fallback"
    config,       \* local config of main
    writer,       \* bufio.Writer: chunks written and not yet flushed
    todo,         \* filepath.Walk: paths still to visit, in visiting order
    visited,      \* paths the walk callback has been called on
    walkErr,      \* the error filepath.Walk returns ("nil" if none)
    errors,       \* errors raised so far in this invocation, handled or not
    log,          \* lines printed by logMessage in this invocation
    exit          \* exit status of the process (-1 while running)

vars == <<dir, fs, unreadable, fallback, outCreatable, out, invocations, lastCmd,
          lastExit, prevYml, pc, args, projectType, configPath, config, writer,
          todo, visited, walkErr, errors, log, exit>>

env == <<dir, unreadable, outCreatable>>

----------------------------------------------------------------------------
(* String literals *)
s_proj == <<"p", "r", "o", "j">>
s_agit == <<"a", ".", "g", "i", "t">>
s_missingdir == <<"m", "i", "s", "s", "i", "n", "g", "d", "i", "r">>
s_gomod == <<"g", "o", ".", "m", "o", "d">>
s_maingo == <<"m", "a", "i", "n", ".", "g", "o">>
s_vendor == <<"v", "e", "n", "d", "o", "r">>
s_libgo == <<"l", "i", "b", ".", "g", "o">>
s_dotgit == <<".", "g", "i", "t">>
s_HEAD == <<"H", "E", "A", "D">>
s_gitbackup == <<"g", "i", "t", "b", "a", "c", "k", "u", "p">>
s_oldgo == <<"o", "l", "d", ".", "g", "o">>
s_codexyml == <<"c", "o", "d", "e", "x", ".", "y", "m", "l">>
s_packagejson == <<"p", "a", "c", "k", "a", "g", "e", ".", "j", "s", "o", "n">>
s_requirements == <<"r", "e", "q", "u", "i", "r", "e", "m", "e", "n", "t", "s", ".", "t", "x", "t">>
s_pomxml == <<"p", "o", "m", ".", "x", "m", "l">>
s_node_modules == <<"n", "o", "d", "e", "_", "m", "o", "d", "u", "l", "e", "s">>
s_dist == <<"d", "i", "s", "t">>
s_build == <<"b", "u", "i", "l", "d">>
s_packagelock == <<"p", "a", "c", "k", "a", "g", "e", "-", "l", "o", "c", "k", ".", "j", "s", "o", "n">>
s_yarnlock == <<"y", "a", "r", "n", ".", "l", "o", "c", "k">>
s_pycache == <<"_", "_", "p", "y", "c", "a", "c", "h", "e", "_", "_">>
s_venv == <<".", "v", "e", "n", "v">>
s_pipfilelock == <<"P", "i", "p", "f", "i", "l", "e", ".", "l", "o", "c", "k">>
s_gosum == <<"g", "o", ".", "s", "u", "m">>
s_target == <<"t", "a", "r", "g", "e", "t">>
s_gradle == <<".", "g", "r", "a", "d", "l", "e">>
s_jar == <<"*", ".", "j", "a", "r">>
s_war == <<"*", ".", "w", "a", "r">>
s_bin == <<"b", "i", "n">>
s_obj == <<"o", "b", "j">>
s_log == <<"*", ".", "l", "o", "g">>
s_tmp == <<"*", ".", "t", "m", "p">>
s_keyFolders == <<"E", "x", "c", "l", "u", "d", "e", "F", "o", "l", "d", "e", "r", "s", ":">>
s_keyFiles == <<"E", "x", "c", "l", "u", "d", "e", "F", "i", "l", "e", "s", ":">>
s_item == <<" ", " ", " ", " ", "-", " ">>
s_empty == <<" ", "[", "]">>
s_hdrOpen == <<"#", "#", "#", "#", "#", " ">>
s_hdrClose == <<" ", "#", "#", "#", "#", "#", "\n", "\n">>
s_recEnd == <<"\n", "\n">>
s_corrupt == <<"{", "o", "o", "p", "s">>
s_tenbytes == <<"p", "a", "c", "k", "a", "g", "e", " ", "m", "\n">>
s_data == <<"x", "\n">>
CharOrder == <<"\n", " ", "#", "'", "*", "-", ".", "/", ":", "A", "D", "E", "F", "H", "P", "[", "]", "_", "a", "b", "c", "d", "e", "f", "g", "h", "i", "j", "k", "l", "m", "n", "o", "p", "q", "r", "s", "t", "u", "v", "w", "x", "y", "{">>
NL == <<"\n">>
Slash == <<"/">>
Quote == <<"'">>

----------------------------------------------------------------------------
(* Bounds of the model *)
MaxInvocations == 2
MaxFaults == 1

----------------------------------------------------------------------------
(* Strings and paths *)

Code(c) == CHOOSE i \in 1..Len(CharOrder) : CharOrder[i] = c

\* byte-wise string comparison a < b (sort.Strings in readDirNames)
RECURSIVE Less(_, _)
Less(a, b) ==
    IF b = <<>> THEN FALSE
    ELSE IF a = <<>> THEN TRUE
    ELSE IF a[1] # b[1] THEN Code(a[1]) < Code(b[1])
    ELSE Less(Tail(a), Tail(b))

\* strings.Contains(s, substr)
Contains(s, substr) ==
    \E i \in 0..Len(s) :
        /\ i + Len(substr) <= Len(s)
        /\ SubSeq(s, i + 1, i + Len(substr)) = substr

HasPrefix(s, p) == Len(p) <= Len(s) /\ SubSeq(s, 1, Len(p)) = p

\* filepath.Join(dir, name) for clean, non-empty arguments
Join(d, name) == d \o Slash \o name

LastSlash(p) ==
    IF \E i \in 1..Len(p) : p[i] = "/"
    THEN CHOOSE i \in 1..Len(p) : p[i] = "/" /\ \A j \in (i+1)..Len(p) : p[j] # "/"
    ELSE 0

\* filepath.Base(p), which is info.Name() of the entry at p
Base(p) == SubSeq(p, LastSlash(p) + 1, Len(p))

\* filepath.Dir(p); <<>> for a path without separator
Parent(p) == IF LastSlash(p) = 0 THEN <<>> ELSE SubSeq(p, 1, LastSlash(p) - 1)

----------------------------------------------------------------------------
(* File system *)

Paths(tree) == {n.path : n \in tree}
Exists(tree, p) == p \in Paths(tree)
Node(tree, p) == CHOOSE n \in tree : n.path = p
File(p, d) == [path |-> p, isDir |-> FALSE, data |-> d]
Folder(p) == [path |-> p, isDir |-> TRUE, data |-> <<>>]

RECURSIVE SortNames(_)
SortNames(S) ==
    IF S = {} THEN <<>>
    ELSE LET m == CHOOSE x \in S : \A y \in S : x = y \/ Less(x, y)
         IN <<m>> \o SortNames(S \ {m})

\* readDirNames(dirname): the names in the directory, sorted
readDirNames(tree, d) ==
    SortNames({Base(p) : p \in {q \in Paths(tree) : Parent(q) = d}})

----------------------------------------------------------------------------
(* Config and its YAML codec *)

Config(folders, files) == [ExcludeFolders |-> folders, ExcludeFiles |-> files]

\* a scalar yaml must quote: here, one starting with the alias indicator
Scalar(s) == IF s # <<>> /\ s[1] = "*" THEN Quote \o s \o Quote ELSE s

Unscalar(s) ==
    IF Len(s) >= 2 /\ s[1] = "'" /\ s[Len(s)] = "'" THEN SubSeq(s, 2, Len(s) - 1)
    ELSE s

RECURSIVE ItemLines(_)
ItemLines(list) ==
    IF list = <<>> THEN <<>>
    ELSE s_item \o Scalar(Head(list)) \o NL \o ItemLines(Tail(list))

ListYaml(key, list) ==
    IF list = <<>> THEN key \o s_empty \o NL
    ELSE key \o NL \o ItemLines(list)

\* yaml.Marshal(&config)
Marshal(c) == ListYaml(s_keyFolders, c.ExcludeFolders) \o ListYaml(s_keyFiles, c.ExcludeFiles)

\* the lines of bytes, without their terminators
SplitLines(bytes) ==
    LET nl == {i \in 1..Len(bytes) : bytes[i] = "\n"}
        ends == IF bytes = <<>> \/ bytes[Len(bytes)] = "\n" THEN nl
                ELSE nl \cup {Len(bytes) + 1}
        nth(k) == CHOOSE i \in ends : Cardinality({j \in ends : j < i}) = k - 1
    IN  [k \in 1..Cardinality(ends) |->
            SubSeq(bytes, (IF k = 1 THEN 1 ELSE nth(k - 1) + 1), nth(k) - 1)]

\* one parsing step: st = [ok, key, c]
ParseLine(st, line) ==
    IF ~st.ok THEN st
    ELSE IF line = s_keyFolders THEN [st EXCEPT !.key = "ExcludeFolders"]
    ELSE IF line = s_keyFiles THEN [st EXCEPT !.key = "ExcludeFiles"]
    ELSE IF line = s_keyFolders \o s_empty THEN [st EXCEPT !.key = "none"]
    ELSE IF line = s_keyFiles \o s_empty THEN [st EXCEPT !.key = "none"]
    ELSE IF HasPrefix(line, s_item) /\ st.key = "ExcludeFolders"
        THEN [st EXCEPT !.c.ExcludeFolders =
                 Append(@, Unscalar(SubSeq(line, Len(s_item) + 1, Len(line))))]
    ELSE IF HasPrefix(line, s_item) /\ st.key = "ExcludeFiles"
        THEN [st EXCEPT !.c.ExcludeFiles =
                 Append(@, Unscalar(SubSeq(line, Len(s_item) + 1, Len(line))))]
    ELSE [st EXCEPT !.ok = FALSE]

RECURSIVE ParseLines(_, _)
ParseLines(st, lines) ==
    IF lines = <<>> THEN st ELSE ParseLines(ParseLine(st, Head(lines)), Tail(lines))

\* yaml.Unmarshal(fileContent, &config): [err, config]
Unmarshal(bytes) ==
    LET st == ParseLines([ok |-> TRUE, key |-> "none", c |-> Config(<<>>, <<>>)],
                         SplitLines(bytes))
    IN  IF st.ok THEN [err |-> "nil", config |-> st.c]
        ELSE [err |-> "format", config |-> Config(<<>>, <<>>)]

----------------------------------------------------------------------------
(* Functions of codex.go *)

\* logMessage(level, message): the printed line, without its timestamp
logMessage(l, level, message) == Append(l, <<level, message>>)

\* os.Stat(p) succeeds
Stat(tree, p) == Exists(tree, p)

\* mutant: go.mod is tested before package.json
detectProjectType_GoFirst(tree, path) ==
    IF Stat(tree, Join(path, s_gomod)) THEN "go"
    ELSE IF Stat(tree, Join(path, s_packagejson)) THEN "nodejs"
    ELSE IF Stat(tree, Join(path, s_requirements)) THEN "python"
    ELSE IF Stat(tree, Join(path, s_pomxml)) THEN "java"
    ELSE "default"

detectProjectType(tree, path) ==
    IF Stat(tree, Join(path, s_packagejson)) THEN "nodejs"
    ELSE IF Stat(tree, Join(path, s_requirements)) THEN "python"
    ELSE IF Stat(tree, Join(path, s_gomod)) THEN "go"
    ELSE IF Stat(tree, Join(path, s_pomxml)) THEN "java"
    ELSE "default"

\* mutant: the go case is missing and falls through to the default table
generateCodexYml_NoGo(path, type) ==
    CASE type = "nodejs" -> Config(<<s_node_modules, s_dist, s_build>>,
                                   <<s_packagelock, s_yarnlock>>)
      [] type = "python" -> Config(<<s_pycache, s_venv>>, <<s_requirements, s_pipfilelock>>)
      [] type = "java"   -> Config(<<s_target, s_gradle>>, <<s_jar, s_war>>)
      [] OTHER           -> Config(<<s_dotgit, s_bin, s_obj>>, <<s_log, s_tmp>>)

generateCodexYml(path, type) ==
    CASE type = "nodejs" -> Config(<<s_node_modules, s_dist, s_build>>,
                                   <<s_packagelock, s_yarnlock>>)
      [] type = "python" -> Config(<<s_pycache, s_venv>>, <<s_requirements, s_pipfilelock>>)
      [] type = "go"     -> Config(<<s_vendor>>, <<s_gosum>>)
      [] type = "java"   -> Config(<<s_target, s_gradle>>, <<s_jar, s_war>>)
      [] OTHER           -> Config(<<s_dotgit, s_bin, s_obj>>, <<s_log, s_tmp>>)

\* mutant: the first character of each entry is dropped before matching
shouldExclude_OffByOne(path, excludes) ==
    \E i \in 1..Len(excludes) : excludes[i] # <<>> /\ Contains(path, Tail(excludes[i]))

\* mutant: an entry matches only the whole path
shouldExclude_Exact(path, excludes) ==
    \E i \in 1..Len(excludes) : path = excludes[i]

shouldExclude(path, excludes) ==
    \E i \in 1..Len(excludes) : Contains(path, excludes[i])

\* ioutil.WriteFile(p, data, 0644) into the tree: possible iff the parent directory exists
CanWrite(tree, p) == Exists(tree, Parent(p)) /\ Node(tree, Parent(p)).isDir
\* mutant: the file is opened for appending instead of being truncated
WriteFile_Append(tree, p, data) ==
    {n \in tree : n.path # p}
    \cup {File(p, (IF Exists(tree, p) THEN Node(tree, p).data ELSE <<>>) \o data)}

WriteFile(tree, p, data) == {n \in tree : n.path # p} \cup {File(p, data)}

\* readConfig(configPath): [err, config]
readConfig(where) ==
    LET p == Join(dir, s_codexyml)
        present == IF where = "dir" THEN Exists(fs, p) /\ ~Node(fs, p).isDir
                   ELSE fallback.exists
        bytes == IF where = "dir" THEN Node(fs, p).data ELSE fallback.data
    IN  IF ~present THEN [err |-> "io", config |-> Config(<<>>, <<>>)]
        ELSE Unmarshal(bytes)

\* mutant: the run branch asks the detector
RunProjectType_Detect(path) == detectProjectType(fs, path)

\* the project type the run branch synthesizes a config for
RunProjectType(path) == "default"

\* mutant: the header names the entry by info.Name() instead of its path
Header_BaseName(path) == s_hdrOpen \o Base(path) \o s_hdrClose

\* the header chunk of a record
Header(path) == s_hdrOpen \o path \o s_hdrClose

\* mutant: the callback returns nil for an excluded directory
PruneSignal_Nil == "nil"

\* what the walk callback returns after an exclusion match on a directory
PruneSignal == "SkipDir"

\* The callback given to filepath.Walk, called on path with info (isDir; absent
\* when err is an Lstat error) and err: what it returns, writes and logs.
WalkFn(path, isDir, err) ==
    IF err # "nil"
    THEN [ret |-> err, chunks |-> <<>>, logs |-> <<<<"ERROR", "Error accessing path">>>>]
    ELSE IF isDir /\ shouldExclude(path, config.ExcludeFolders)
    THEN [ret |-> PruneSignal, chunks |-> <<>>, logs |-> <<<<"INFO", "Skipping folder">>>>]
    ELSE IF ~isDir /\ shouldExclude(Base(path), config.ExcludeFiles)
    THEN [ret |-> "nil", chunks |-> <<>>, logs |-> <<<<"INFO", "Skipping file">>>>]
    ELSE IF ~isDir
    THEN IF path \in unreadable
         THEN [ret |-> "read", chunks |-> <<Header(path)>>,
               logs |-> <<<<"INFO", "Processing file">>, <<"ERROR", "Failed to read file">>>>]
         ELSE [ret |-> "nil", chunks |-> <<Header(path), Node(fs, path).data, s_recEnd>>,
               logs |-> <<<<"INFO", "Processing file">>>>]
    ELSE [ret |-> "nil", chunks |-> <<>>, logs |-> <<>>]

----------------------------------------------------------------------------
(* The processes: main, one action per step *)

NoConfig == Config(<<>>, <<>>)

Yml(tree) ==
    IF Exists(tree, Join(dir, s_codexyml))
    THEN [exists |-> TRUE, data |-> Node(tree, Join(dir, s_codexyml)).data]
    ELSE [exists |-> FALSE, data |-> <<>>]

disk == <<fs, fallback, out>>
history == <<invocations, lastCmd, lastExit, prevYml>>
walk == <<writer, todo, visited, walkErr>>

\* len(os.Args) < 2, an unknown subcommand, or a subcommand without <directory>
Usage ==
    /\ pc = "start"
    /\ \E a \in {<<>>, <<"help">>, <<"init">>, <<"run">>} : args' = a
    /\ errors' = Append(errors, "Usage")
    /\ exit' = 1
    /\ pc' = "exit"
    /\ UNCHANGED <<env, disk, history, walk, projectType, configPath, config, log>>

\* codex init <dir>: lines 128-146
InitCmd ==
    /\ pc = "start"
    /\ args' = <<"init", dir>>
    /\ projectType' = detectProjectType(fs, dir)
    /\ config' = generateCodexYml(dir, projectType')
    /\ LET path == Join(dir, s_codexyml)
       IN  IF CanWrite(fs, path)
           THEN /\ fs' = WriteFile(fs, path, Marshal(config'))
                /\ log' = logMessage(log, "INFO", "Generated codex.yml")
                /\ exit' = 0
                /\ UNCHANGED errors
           ELSE /\ errors' = Append(errors, "ConfigWrite")
                /\ log' = logMessage(log, "ERROR", "Failed to write codex.yml")
                /\ exit' = 1
                /\ UNCHANGED fs
    /\ pc' = "exit"
    /\ UNCHANGED <<env, fallback, out, history, walk, configPath>>

\* codex run <dir>, lines 148-164: choose the configuration file, synthesizing the
\* default one when <dir>/codex.yml does not exist; writeConfig's error is dropped
RunResolveConfig ==
    /\ pc = "start"
    /\ args' = <<"run", dir>>
    /\ IF ~Stat(fs, Join(dir, s_codexyml))
       THEN /\ log' = logMessage(log, "INFO", "codex.yml not found, using default settings")
            /\ projectType' = RunProjectType(dir)
            /\ configPath' = "fallback"
            /\ IF fallback.writable
               THEN /\ fallback' = [fallback EXCEPT !.exists = TRUE,
                                       !.data = Marshal(generateCodexYml(dir, projectType'))]
                    /\ UNCHANGED errors
               ELSE /\ errors' = Append(errors, "ConfigWrite")
                    /\ UNCHANGED fallback
       ELSE /\ configPath' = "dir"
            /\ UNCHANGED <<log, projectType, fallback, errors>>
    /\ pc' = "load"
    /\ UNCHANGED <<env, fs, out, history, walk, config, exit>>

\* lines 166-171
RunLoadConfig ==
    /\ pc = "load"
    /\ LET r == readConfig(configPath)
       IN  IF r.err # "nil"
           THEN /\ errors' = Append(errors, "ConfigRead")
                /\ log' = logMessage(log, "ERROR", "Failed to read config file")
                /\ exit' = 1
                /\ pc' = "exit"
                /\ UNCHANGED config
           ELSE /\ config' = r.config
                /\ pc' = "create"
                /\ UNCHANGED <<errors, log, exit>>
    /\ UNCHANGED <<env, disk, history, walk, args, projectType, configPath>>

\* lines 173-181: os.Create truncates the output file
RunCreateOutput ==
    /\ pc = "create"
    /\ IF ~outCreatable
       THEN /\ errors' = Append(errors, "OutputCreate")
            /\ log' = logMessage(log, "ERROR", "Failed to create output file")
            /\ exit' = 1
            /\ pc' = "exit"
            /\ UNCHANGED <<out, walk>>
       ELSE /\ out' = <<>>
            /\ writer' = <<>>
            /\ todo' = <<dir>>
            /\ pc' = "walk"
            /\ UNCHANGED <<errors, log, exit, visited, walkErr>>
    /\ UNCHANGED <<env, fs, fallback, history, args, projectType, configPath, config>>

\* filepath.Walk visiting the next path (lines 184-215 are its callback). As in
\* path/filepath's walk: Lstat of the path; for a directory readDirNames comes
\* first and its error is handed to the callback in the same, single call; the
\* walk stops on any error the callback returns other than SkipDir, skips the
\* directory on SkipDir and otherwise descends into the sorted names.
WalkVisit ==
    /\ pc = "walk" /\ walkErr = "nil" /\ todo # <<>>
    /\ LET path == Head(todo)
           lstatErr == ~Exists(fs, path)
           isDir == ~lstatErr /\ Node(fs, path).isDir
           listErr == isDir /\ path \in unreadable
           err == IF lstatErr THEN "lstat" ELSE IF listErr THEN "readdir" ELSE "nil"
           r == WalkFn(path, isDir, err)
           names == readDirNames(fs, path)
       IN  /\ visited' = Append(visited, path)
           /\ writer' = writer \o r.chunks
           /\ log' = log \o r.logs
           /\ IF r.ret \notin {"nil", "SkipDir"}
              THEN /\ walkErr' = r.ret
                   /\ errors' = Append(errors, "Traversal")
                   /\ UNCHANGED todo
              ELSE /\ todo' = IF isDir /\ err = "nil" /\ r.ret = "nil"
                              THEN [i \in 1..Len(names) |-> Join(path, names[i])] \o Tail(todo)
                              ELSE Tail(todo)
                   /\ UNCHANGED <<walkErr, errors>>
    /\ UNCHANGED <<env, disk, history, pc, args, projectType, configPath, config, exit>>

\* lines 217-224: the walk has returned; a failed run leaves what the writer had
\* already passed on to the file, a successful one flushes
RunFinish ==
    /\ pc = "walk" /\ (walkErr # "nil" \/ todo = <<>>)
    /\ IF walkErr # "nil"
       THEN /\ log' = logMessage(log, "ERROR", "Error walking the path")
            /\ exit' = 1
            /\ \E k \in 0..Len(writer) : out' = SubSeq(writer, 1, k)
       ELSE /\ out' = writer
            /\ log' = logMessage(log, "INFO", "All code has been extracted")
            /\ exit' = 0
    /\ pc' = "exit"
    /\ UNCHANGED <<env, fs, fallback, history, walk, args, projectType, configPath,
                   config, errors>>

\* the process has exited and the next one is started
NextInvocation ==
    /\ pc = "exit"
    /\ invocations < MaxInvocations
    /\ invocations' = invocations + 1
    /\ lastCmd' = args
    /\ lastExit' = exit
    /\ prevYml' = Yml(fs)
    /\ pc' = "start"
    /\ args' = <<>>
    /\ projectType' = ""
    /\ configPath' = ""
    /\ config' = NoConfig
    /\ writer' = <<>>
    /\ todo' = <<>>
    /\ visited' = <<>>
    /\ walkErr' = "nil"
    /\ errors' = <<>>
    /\ log' = <<>>
    /\ exit' = -1
    /\ UNCHANGED <<env, disk>>

Next ==
    \/ Usage
    \/ InitCmd
    \/ RunResolveConfig
    \/ RunLoadConfig
    \/ RunCreateOutput
    \/ WalkVisit
    \/ RunFinish
    \/ NextInvocation

----------------------------------------------------------------------------
(* The environments the program is started in *)

Roots == {s_proj, s_agit}
Markers == {s_packagejson, s_requirements, s_gomod, s_pomxml}
Folders == {s_vendor, s_dotgit, s_gitbackup}

\* the file each optional folder holds
Inside(f) == IF f = s_vendor THEN s_libgo ELSE IF f = s_dotgit THEN s_HEAD ELSE s_oldgo

\* a codex.yml written by hand
CustomConfig == Config(<<s_dotgit>>, <<s_gomod>>)

\* layouts: main.go, with any set of marker files, or with go.mod and any set of folders
Layouts ==
    {[files |-> m, folders |-> {}] : m \in SUBSET Markers}
    \cup {[files |-> m, folders |-> f] : m \in SUBSET {s_gomod}, f \in SUBSET Folders}

Tree(root, layout, yml) ==
    {Folder(root), File(Join(root, s_maingo), s_tenbytes)}
    \cup {File(Join(root, m), s_data) : m \in layout.files}
    \cup {Folder(Join(root, f)) : f \in layout.folders}
    \cup {File(Join(Join(root, f), Inside(f)), s_data) : f \in layout.folders}
    \cup (IF yml = "custom" THEN {File(Join(root, s_codexyml), Marshal(CustomConfig))}
          ELSE IF yml = "corrupt" THEN {File(Join(root, s_codexyml), s_corrupt)}
          ELSE {})

Trees ==
    {Tree(r, l, y) : r \in Roots, l \in Layouts, y \in {"none", "custom", "corrupt"}}

\* the states of the fallback location: writable; no config directory; a
\* default.yml left there that cannot be written
Fallbacks ==
    {[writable |-> TRUE, exists |-> FALSE, data |-> <<>>],
     [writable |-> FALSE, exists |-> FALSE, data |-> <<>>],
     [writable |-> FALSE, exists |-> TRUE, data |-> Marshal(CustomConfig)]}

Faults(u, f, o) ==
    Cardinality(u) + (IF f.writable THEN 0 ELSE 1) + (IF o THEN 0 ELSE 1)

Init ==
    /\ \/ /\ dir \in Roots
          /\ \E t \in Trees : fs = t /\ Exists(t, dir)
       \/ /\ dir = s_missingdir
          /\ fs = {}
    /\ unreadable \in SUBSET Paths(fs)
    /\ fallback \in Fallbacks
    /\ outCreatable \in BOOLEAN
    /\ Faults(unreadable, fallback, outCreatable) <= MaxFaults
    /\ out = <<>>
    /\ invocations = 1
    /\ lastCmd = <<>>
    /\ lastExit = -1
    /\ prevYml = Yml(fs)
    /\ pc = "start"
    /\ args = <<>>
    /\ projectType = ""
    /\ configPath = ""
    /\ config = NoConfig
    /\ writer = <<>>
    /\ todo = <<>>
    /\ visited = <<>>
    /\ walkErr = "nil"
    /\ errors = <<>>
    /\ log = <<>>
    /\ exit = -1

Spec == Init /\ [][Next]_vars

----------------------------------------------------------------------------
(* Vocabulary of the properties *)

Range(s) == {s[i] : i \in 1..Len(s)}

\* some entry of list is a literal substring of s
SubstringOfAny(s, list) == \E e \in Range(list) : Contains(s, e)

\* path p lies beneath directory d
Under(p, d) == HasPrefix(p, d \o Slash)

IsFile(p) == Exists(fs, p) /\ ~Node(fs, p).isDir
IsFolder(p) == Exists(fs, p) /\ Node(fs, p).isDir

\* the chunks form whole records: header, content, two newlines
WellFormed(chunks) ==
    /\ Len(chunks) % 3 = 0
    /\ \A k \in 1..(Len(chunks) \div 3) :
        /\ HasPrefix(chunks[3 * k - 2], s_hdrOpen)
        /\ Len(chunks[3 * k - 2]) > Len(s_hdrOpen) + Len(s_hdrClose)
        /\ SubSeq(chunks[3 * k - 2], Len(chunks[3 * k - 2]) - Len(s_hdrClose) + 1,
                  Len(chunks[3 * k - 2])) = s_hdrClose
        /\ chunks[3 * k] = s_recEnd

\* the records of a well-formed artifact, in order: the path of the header and the content
Records(chunks) ==
    [k \in 1..(Len(chunks) \div 3) |->
        [path |-> SubSeq(chunks[3 * k - 2], Len(s_hdrOpen) + 1,
                         Len(chunks[3 * k - 2]) - Len(s_hdrClose)),
         data |-> chunks[3 * k - 1]]]

RecordedPaths == {Records(out)[k].path : k \in 1..Len(Records(out))}

Logged(level, message) == <<level, message>> \in Range(log)

RunExited == pc = "exit" /\ args = <<"run", dir>>
RunSucceeded == RunExited /\ exit = 0
InitExited == pc = "exit" /\ args = <<"init", dir>>

\* a file of the tree that no exclusion list matches: no directory from the root
\* down to its parent has a path containing an ExcludeFolders entry, and its base
\* name contains no ExcludeFiles entry
Included(p) ==
    /\ IsFile(p)
    /\ ~\E d \in Paths(fs) :
          IsFolder(d) /\ Under(p, d) /\ SubstringOfAny(d, config.ExcludeFolders)
    /\ ~SubstringOfAny(Base(p), config.ExcludeFiles)

ExcludedFolder(p) == IsFolder(p) /\ SubstringOfAny(p, config.ExcludeFolders)
ExcludedFile(p) == IsFile(p) /\ SubstringOfAny(Base(p), config.ExcludeFiles)

\* the default row of the table of section 4.2
SpecDefaultConfig == Config(<<s_dotgit, s_bin, s_obj>>, <<s_log, s_tmp>>)

----------------------------------------------------------------------------
(* C1: a successful run writes exactly one record per file of the tree that no
   exclusion list matches (no directory on its ancestor chain has a path containing
   an ExcludeFolders entry, its base name contains no ExcludeFiles entry), with the
   file's bytes, no record for any other file and never two for the same file. *)
C1_OneRecordPerIncludedFile ==
    RunSucceeded =>
        /\ WellFormed(out)
        /\ RecordedPaths = {p \in Paths(fs) : Included(p)}
        /\ Len(Records(out)) = Cardinality(RecordedPaths)
        /\ \A k \in 1..Len(Records(out)) :
              Records(out)[k].data = Node(fs, Records(out)[k].path).data

\* a successful run that recorded files, skipped a file by name and pruned a folder
C1_Witness ==
    /\ RunSucceeded
    /\ Len(Records(out)) >= 2
    /\ \E p \in Paths(fs) : ExcludedFile(p) /\ p \in Range(visited)
    /\ \E d \in Paths(fs) : ExcludedFolder(d) /\ d # dir /\ \E p \in Paths(fs) : Under(p, d)

----------------------------------------------------------------------------
\* the proj/ of the scenario after `codex init proj` and `codex run proj` both succeeded
C2_Scenario ==
    /\ dir = s_proj
    /\ Paths(fs) = {s_proj, Join(s_proj, s_gomod), Join(s_proj, s_maingo),
                    Join(s_proj, s_vendor), Join(Join(s_proj, s_vendor), s_libgo),
                    Join(s_proj, s_codexyml)}
    /\ Node(fs, Join(s_proj, s_maingo)).data = s_tenbytes
    /\ lastCmd = <<"init", dir>> /\ lastExit = 0
    /\ RunSucceeded

(* C2 as stated: after init and run on a proj/ holding exactly go.mod, main.go
   (10 bytes) and vendor/lib.go, the output holds exactly one record, the one for
   proj/main.go with its 10 bytes, and none for anything under proj/vendor. *)
C2_OnlyMainGo ==
    C2_Scenario =>
        Records(out) = <<[path |-> Join(s_proj, s_maingo), data |-> s_tenbytes]>>

(* C2 amended: the output holds exactly three records, in walk order: proj/codex.yml
   (the config init wrote: folder vendor, file go.sum), proj/go.mod and proj/main.go
   with its 10 bytes verbatim; and none for anything under proj/vendor. *)
C2_ThreeRecords ==
    C2_Scenario =>
        /\ WellFormed(out)
        /\ Records(out) =
             <<[path |-> Join(s_proj, s_codexyml),
                data |-> s_keyFolders \o NL \o s_item \o s_vendor \o NL
                         \o s_keyFiles \o NL \o s_item \o s_gosum \o NL],
               [path |-> Join(s_proj, s_gomod), data |-> Node(fs, Join(s_proj, s_gomod)).data],
               [path |-> Join(s_proj, s_maingo), data |-> s_tenbytes]>>
        /\ \A p \in RecordedPaths : ~Under(p, Join(s_proj, s_vendor))

C2_Witness == C2_Scenario /\ Len(s_tenbytes) = 10 /\ Len(out) > 0

----------------------------------------------------------------------------
(* C3: `codex run missingdir` (the directory does not exist) falls back to the
   default exclusions, reaches the traversal of missingdir and exits 1 because of
   the traversal error on the missing root, not because of an earlier error,
   whatever the state of the fallback config location. *)
C3_MissingDirFailsInTraversal ==
    (RunExited /\ ~Exists(fs, dir) /\ outCreatable) =>
        /\ exit = 1
        /\ config = SpecDefaultConfig
        /\ visited = <<dir>>
        /\ walkErr = "lstat"
        /\ "ConfigRead" \notin Range(errors)

----------------------------------------------------------------------------
\* the run had no <dir>/codex.yml and has loaded its Config
C4_LoadedFallback ==
    /\ args = <<"run", dir>>
    /\ configPath = "fallback"
    /\ pc \in {"create", "walk"} \/ (pc = "exit" /\ "ConfigRead" \notin Range(errors))

(* C4 as stated: when run has no <dir>/codex.yml, the Config handed to the
   Aggregator is the one the generator yields for the type the detector detects
   for <dir>. *)
C4_ConfigOfDetectedType ==
    (C4_LoadedFallback /\ "ConfigWrite" \notin Range(errors)) =>
        config = generateCodexYml(dir, detectProjectType(fs, dir))

(* C4 amended: when run has no <dir>/codex.yml, the Config it synthesizes is the
   generator's for the fixed type `default`, whatever the detector would detect;
   the Config handed to the Aggregator is the one read back from the fallback
   file, which is that default Config whenever writing the file succeeded. *)
C4_ConfigOfDefaultType ==
    (args = <<"run", dir>> /\ configPath = "fallback") =>
        /\ projectType = "default"
        /\ "ConfigWrite" \notin Range(errors) =>
              /\ fallback.exists
              /\ Unmarshal(fallback.data) = [err |-> "nil", config |-> SpecDefaultConfig]
              /\ C4_LoadedFallback => config = SpecDefaultConfig

\* a directory with go.mod and no codex.yml is being aggregated
C4_Witness ==
    /\ C4_LoadedFallback
    /\ pc = "walk"
    /\ "ConfigWrite" \notin Range(errors)
    /\ Exists(fs, Join(dir, s_gomod))
    /\ Len(visited) > 1

----------------------------------------------------------------------------
(* C5: every error of an invocation is terminal: once an error occurred the
   success report is never emitted and the process exits 1; exit status 0 is
   reached only if no error occurred. *)
C5_EveryErrorIsTerminal ==
    /\ errors # <<>> => ~Logged("INFO", "All code has been extracted")
    /\ pc = "exit" => (exit = 0 <=> errors = <<>>)
    /\ pc = "exit" /\ errors # <<>> => exit = 1

----------------------------------------------------------------------------
\* a successful run with ExcludeFolders = [".git"] over a directory holding gitbackup
C6_Scenario ==
    /\ RunSucceeded
    /\ errors = <<>>
    /\ config.ExcludeFolders = <<s_dotgit>>
    /\ IsFolder(Join(dir, s_gitbackup))
    /\ IsFile(Join(Join(dir, s_gitbackup), s_oldgo))

(* C6 as stated: with ExcludeFolders = [".git"], a folder named gitbackup is
   skipped: no file under it gets a record. *)
C6_GitbackupSkipped ==
    C6_Scenario => \A p \in RecordedPaths : ~Under(p, Join(dir, s_gitbackup))

(* C6 amended: ".git" is not a substring of "gitbackup", so the folder is skipped
   only when its full path contains ".git" for another reason (the root does);
   otherwise the file under gitbackup gets its record. *)
C6_GitbackupKept ==
    C6_Scenario =>
        (Join(Join(dir, s_gitbackup), s_oldgo) \in RecordedPaths
            <=> ~Contains(Join(dir, s_gitbackup), s_dotgit))

C6_Witness ==
    /\ C6_Scenario
    /\ Join(Join(dir, s_gitbackup), s_oldgo) \in RecordedPaths
    /\ Join(dir, s_gitbackup) \in Range(visited)

----------------------------------------------------------------------------
\* the marker files in their priority order, and the type each one signals
MarkerOrder == <<s_packagejson, s_requirements, s_gomod, s_pomxml>>
MarkerType == <<"nodejs", "python", "go", "java">>
Present == {i \in 1..Len(MarkerOrder) : Exists(fs, Join(dir, MarkerOrder[i]))}

(* C7: the detector returns the type of the first marker present in the order
   package.json, requirements.txt, go.mod, pom.xml, and `default` if and only if
   none is present. *)
C7_FirstMarkerWins ==
    InitExited =>
        /\ \A i \in Present : (\A j \in Present : i <= j) => projectType = MarkerType[i]
        /\ projectType = "default" <=> Present = {}

\* package.json and go.mod together are detected as nodejs
C7_Witness ==
    /\ InitExited
    /\ {1, 3} \subseteq Present
    /\ projectType = "nodejs"

----------------------------------------------------------------------------
(* C8: init is idempotent: a second successful init on the same directory leaves
   <dir>/codex.yml byte-identical to what the first one wrote. *)
C8_InitIdempotent ==
    (InitExited /\ exit = 0 /\ lastCmd = <<"init", dir>> /\ lastExit = 0) =>
        /\ prevYml.exists
        /\ Yml(fs) = prevYml

C8_Witness ==
    /\ InitExited /\ exit = 0 /\ lastCmd = <<"init", dir>> /\ lastExit = 0
    /\ Present # {}
    /\ Len(Yml(fs).data) > 0

----------------------------------------------------------------------------
WalkReturned == pc \in {"walk", "exit"} /\ visited # <<>> /\ walkErr = "nil" /\ todo = <<>>
LastVisited == visited[Len(visited)]

\* nothing beneath an excluded folder is ever visited, and once the walk has
\* returned every sibling of an excluded entry it visited has been visited too
C9_PruneAndSkip ==
    /\ \A i \in 1..Len(visited) : \A d \in Paths(fs) :
          ExcludedFolder(d) => ~Under(visited[i], d)
    /\ WalkReturned =>
          \A i \in 1..Len(visited) :
              (ExcludedFolder(visited[i]) \/ ExcludedFile(visited[i])) =>
                  \A q \in Paths(fs) : Parent(q) = Parent(visited[i]) => q \in Range(visited)

(* C9 as stated: a folder whose path matches ExcludeFolders is a hard prune:
   nothing beneath it is visited, and the walk continues with its later
   siblings; a file whose name matches ExcludeFiles is a soft skip: the walk
   continues. Neither visit aborts the walk (stated here for the folders below
   the root, which are the ones that have siblings). *)
C9_HardPruneSoftSkip ==
    /\ C9_PruneAndSkip
    /\ (visited # <<>> /\ walkErr # "nil") =>
          /\ ~(ExcludedFolder(LastVisited) /\ LastVisited # dir)
          /\ ~ExcludedFile(LastVisited)

(* C9 amended: the same, for a folder whose listing can be read: an unreadable
   folder is reported to the callback as an error, which the callback returns
   before it looks at the exclusion lists, so that it aborts the walk even when
   its path matches ExcludeFolders. *)
C9_HardPruneOfReadableFolder ==
    /\ C9_PruneAndSkip
    /\ (visited # <<>> /\ walkErr # "nil") =>
          /\ ~(ExcludedFolder(LastVisited) /\ LastVisited \notin unreadable)
          /\ ~ExcludedFile(LastVisited)

\* a run that pruned a folder holding an unreadable file, skipped a file, went on
\* with the later siblings of both and succeeded
C9_Witness ==
    /\ RunSucceeded
    /\ \E i \in 1..Len(visited) : \E j \in (i + 1)..Len(visited) :
          /\ ExcludedFolder(visited[i])
          /\ Parent(visited[j]) = Parent(visited[i])
          /\ \E p \in unreadable : Under(p, visited[i])
    /\ \E i \in 1..Len(visited) : \E j \in (i + 1)..Len(visited) :
          /\ ExcludedFile(visited[i])
          /\ Parent(visited[j]) = Parent(visited[i])

----------------------------------------------------------------------------
\* a run reached the walk of a root folder whose path contains an ExcludeFolders entry
C10_RootExcluded ==
    /\ RunExited
    /\ visited # <<>>
    /\ IsFolder(dir)
    /\ SubstringOfAny(dir, config.ExcludeFolders)

C10_PrunedAtRoot ==
    /\ visited = <<dir>>
    /\ writer = <<>>
    /\ out = <<>>
    /\ exit = 0
    /\ Logged("INFO", "All code has been extracted")

(* C10 as stated: if the root path given to run contains an ExcludeFolders entry,
   the walk is pruned at the root: no file is recorded, the output is empty and
   the run exits 0 with the success report. *)
C10_ExcludedRootSucceeds == C10_RootExcluded => C10_PrunedAtRoot

(* C10 amended: the same, provided the listing of the root folder can be read; an
   unreadable root is reported to the callback as an error and the run exits 1. *)
C10_ExcludedReadableRootSucceeds ==
    (C10_RootExcluded /\ dir \notin unreadable) => C10_PrunedAtRoot

C10_Witness ==
    /\ C10_RootExcluded
    /\ dir \notin unreadable
    /\ Cardinality(fs) > 2
    /\ C10_PrunedAtRoot

====
